---------------------------- MODULE Spec2Model ----------------------------
(***************************************************************************)
(* Model of the real-time synchronisation layer of the snag tracker web    *)
(* client (src/frontend/src/App.js): the WebSocketProvider (transport      *)
(* channel and listener registry) and the SnagsPage reconciliation of      *)
(* incoming events.                                                        *)
(***************************************************************************)
EXTENDS Integers, Sequences, FiniteSets, TLC

\* ------------------------------------------------------------------ bounds
\* Number of WebSocket objects the provider may create in one run.
MaxSockets == 3
\* Number of disconnect() calls the host may make in one run.
MaxDisconnects == 2
\* Number of distinct listener functions.
MaxListeners == 2
\* Number of subscribe() calls per listener function whose capability is outstanding.
MaxSubs == 2
\* Number of frames received in one run.
MaxFrames == 2
\* Number of snags the server ever creates.
MaxSnags == 3
\* Highest revision a snag reaches through updates on the server.
MaxRev == 2
\* Number of GET /api/snags requests the SnagsPage issues in one run.
MaxFetches == 2
\* Number of messages the SnagsPage listener is invoked with in one run.
MaxEvents == 2
\* Largest page size offered by the list, in units of the smallest.
MaxPageSize == 2
\* Highest page number the list is taken to in one run.
MaxPage == 4
\* const maxVisiblePages = 5 of the Pagination component.
maxVisiblePages == 5
\* Number of PUT /api/snags/{id} requests the detail view issues in one run.
MaxPuts == 2
\* Latest instant the contractor picks as completion date.
MaxDate == 2

VARIABLES
    sockets,      \* readyState of every WebSocket object created so far
    wsRef,        \* wsRef.current: 0 (null) or the socket last created
    timer,        \* the reconnect timer armed by each socket's onclose
    timeoutRef,   \* reconnectTimeoutRef.current: 0 (null) or a timer id
    isConnected,  \* the isConnected state of the provider
    token,        \* localStorage holds an authToken
    authOn,       \* sockets on which an auth frame has been sent
    attempts,     \* per closure (timer): the sockets opened as reconnect attempts for it
    stopped,      \* disconnect() was called and the host has not called connect() since
    disconnects,  \* number of disconnect() calls so far
    listeners,    \* listenersRef.current: a Set, kept in insertion order
    caps,         \* per listener: unsubscribe capabilities returned and not yet called
    faulty,       \* the listener functions that throw when they are invoked
    received,     \* number of frames received so far (the arrival index of the last one)
    lastFrame,    \* the text of the last frame received, "" before the first
    delivered,    \* per listener: the arrival indices of the events it was invoked with
    lastUpdate,   \* the lastUpdate state: 0 (null) or the arrival index of the last dispatched frame
    server,       \* the backend's snags: revision of each id, 0 when it does not exist
    serverSeq,    \* number of snags the backend has created so far (ids are never reused)
    snags,        \* the snags state of SnagsPage: the local snapshot, a list
    loading,      \* the loading state of SnagsPage
    fetches,      \* the GET /api/snags requests issued by loadSnags, in order of issue
    realtimeUpdate, \* the realtimeUpdate state: 0 (null) or [event, time]
    nEvents,      \* number of messages the SnagsPage listener has been invoked with
    lastMsg,      \* the message of the last invocation of the listener
    prevSnags,    \* the snapshot as it was before the last invocation of the listener
    filters,      \* the filters state of SnagsPage as of its latest render
    closure,      \* the filters the subscribed listener's loadSnags closes over
    catalog,      \* per snag id: the fields the filters and the search look at
    inflight,     \* frames the backend has pushed on the connection, not yet received
    currentPage,  \* the currentPage state of SnagsPage
    itemsPerPage, \* the itemsPerPage state of SnagsPage
    lastView,     \* the last handler of the list view that ran, and the page shown before it
    user,         \* the logged-in user of the detail view: role, assignment, client
    srv,          \* the snag on the backend
    loc,          \* the snag the detail view renders: the snag prop (web), the snag state (mobile)
    form,         \* the state of the detail view: form fields, modes, last alert
    puts,         \* the PUT /api/snags/{id} requests issued, in order of issue
    clock,        \* the instant the next new Date() returns
    fetching      \* number of fetchSnag() requests of the mobile screen not yet returned

chanVars == <<sockets, wsRef, timer, timeoutRef, isConnected, token, authOn,
              attempts, stopped, disconnects>>

busVars == <<listeners, caps, faulty, received, lastFrame, delivered, lastUpdate>>

pageVars == <<server, serverSeq, snags, loading, fetches,
              realtimeUpdate, nEvents, lastMsg, prevSnags>>

syncVars == <<filters, closure, catalog, inflight>>

viewVars == <<currentPage, itemsPerPage, lastView>>

flowVars == <<user, srv, loc, form, puts, clock, fetching>>

moreVars == <<syncVars, viewVars, flowVars>>

vars == <<chanVars, busVars, pageVars, moreVars>>

SocketIds == 1..MaxSockets

\* readyState values of a WebSocket; "none" marks an id not yet created.
ReadyStates == {"none", "connecting", "open", "closing", "closed"}

\* A timer is identified by the socket whose onclose armed it.
TimerStates == {"none", "pending", "fired", "cleared"}

Live(s) == sockets[s] \in {"connecting", "open"}

\* ------------------------------------------------------- WebSocketProvider
\* useState / useRef initial values.
InitChannel ==
    /\ sockets = [s \in SocketIds |-> "none"]
    /\ wsRef = 0
    /\ timer = [s \in SocketIds |-> "none"]
    /\ timeoutRef = 0
    /\ isConnected = FALSE
    /\ token \in BOOLEAN
    /\ authOn = {}
    /\ attempts = [s \in SocketIds |-> 0]
    /\ stopped = FALSE
    /\ disconnects = 0

\* connect() returns early only when the current socket is OPEN.
ConnectIsNoop == wsRef # 0 /\ sockets[wsRef] = "open"

\* The body of connect(): new WebSocket(WS_URL) stored in wsRef.current, with
\* the four handlers attached.  `by` is 0 for a call of the host and the timer
\* id for a call made by a reconnect timer.  The socket opened is counted as a
\* reconnect attempt for the closure whose timer made the call, or, for a call
\* of the host, for the latest closure while its timer is still pending.
ConnectBody(by) ==
    IF ConnectIsNoop
    THEN /\ UNCHANGED <<sockets, wsRef>>
         /\ attempts' = attempts
    ELSE /\ wsRef < MaxSockets
         /\ wsRef' = wsRef + 1
         /\ sockets' = [sockets EXCEPT ![wsRef + 1] = "connecting"]
         /\ attempts' = [t \in SocketIds |->
                           IF (by = 0 /\ t = timeoutRef /\ timer[t] = "pending") \/ t = by
                           THEN attempts[t] + 1 ELSE attempts[t]]

\* The host calls connect(): the provider's mount effect, or the AppContent
\* effect that runs whenever the user or the context value changes.
Connect ==
    /\ ConnectBody(0)
    /\ stopped' = FALSE
    /\ UNCHANGED <<timer, timeoutRef, isConnected, token, authOn, disconnects>>
    /\ UNCHANGED <<busVars, pageVars, moreVars>>

\* A reconnect timer fires: setTimeout(connect, 3000).
TimerFire(t) ==
    /\ timer[t] = "pending"
    /\ timer' = [timer EXCEPT ![t] = "fired"]
    /\ ConnectBody(t)
    /\ UNCHANGED <<timeoutRef, isConnected, token, authOn, stopped, disconnects>>
    /\ UNCHANGED <<busVars, pageVars, moreVars>>

\* What wsRef.current.send(frame) does, by the readyState of the socket it is
\* called on: CONNECTING throws InvalidStateError, OPEN transmits, CLOSING and
\* CLOSED discard the data.
SendTransmits(target) == sockets'[target] = "open"

\* onopen of socket s: setIsConnected(true), then the auth frame is sent on
\* wsRef.current (not necessarily s) when a token is stored.
OnOpen(s) ==
    /\ sockets[s] = "connecting"
    /\ sockets' = [sockets EXCEPT ![s] = "open"]
    /\ isConnected' = TRUE
    /\ authOn' = IF token /\ SendTransmits(wsRef)
                 THEN authOn \cup {wsRef} ELSE authOn
    /\ UNCHANGED <<wsRef, timer, timeoutRef, token, attempts, stopped, disconnects>>
    /\ UNCHANGED <<busVars, pageVars, moreVars>>

\* onclose of socket s: the connection failed, was lost, or close() completed.
\* setIsConnected(false) and a reconnect timer is armed unconditionally.
OnClose(s) ==
    /\ sockets[s] \in {"connecting", "open", "closing"}
    /\ sockets' = [sockets EXCEPT ![s] = "closed"]
    /\ isConnected' = FALSE
    /\ timer' = [timer EXCEPT ![s] = "pending"]
    /\ timeoutRef' = s
    /\ UNCHANGED <<wsRef, token, authOn, attempts, stopped, disconnects>>
    /\ UNCHANGED <<busVars, pageVars, moreVars>>

\* close() on a socket: CONNECTING and OPEN become CLOSING (the close event
\* follows later), CLOSING and CLOSED are left alone.
CloseSocket(st) == IF st \in {"connecting", "open"} THEN "closing" ELSE st

\* disconnect(): clearTimeout of the one timer id held in the ref, close() of
\* the current socket.  Neither ref is reset.
Disconnect ==
    /\ disconnects < MaxDisconnects
    /\ disconnects' = disconnects + 1
    /\ stopped' = TRUE
    /\ timer' = IF timeoutRef # 0 /\ timer[timeoutRef] = "pending"
                THEN [timer EXCEPT ![timeoutRef] = "cleared"]
                ELSE timer
    /\ sockets' = IF wsRef # 0
                  THEN [sockets EXCEPT ![wsRef] = CloseSocket(sockets[wsRef])]
                  ELSE sockets
    /\ UNCHANGED <<wsRef, timeoutRef, isConnected, token, authOn, attempts>>
    /\ UNCHANGED <<busVars, pageVars, moreVars>>

\* login() stores the token.
Login ==
    /\ ~token
    /\ token' = TRUE
    /\ UNCHANGED <<sockets, wsRef, timer, timeoutRef, isConnected, authOn,
                   attempts, stopped, disconnects>>
    /\ UNCHANGED <<busVars, pageVars, moreVars>>

\* logout() removes the token; the provider stays mounted and connected.
Logout ==
    /\ token
    /\ token' = FALSE
    /\ UNCHANGED <<sockets, wsRef, timer, timeoutRef, isConnected, authOn,
                   attempts, stopped, disconnects>>
    /\ UNCHANGED <<busVars, pageVars, moreVars>>


\* ------------------------------------------------- listener registry (bus)
ListenerIds == 1..MaxListeners

\* The frames the server may push, as the text of event.data.
RawFrames == {"not json", "null", "{}", "{type:pong}",
              "{type:snag_update}", "{type:notification}"}

\* JSON.parse(event.data): throws on text that is not JSON, otherwise yields
\* null or an object whose `type` may be missing (undefined).
JSONparse(raw) ==
    CASE raw = "not json" -> [ok |-> FALSE, isNull |-> FALSE, type |-> "undefined"]
      [] raw = "null" -> [ok |-> TRUE, isNull |-> TRUE, type |-> "undefined"]
      [] raw = "{}" -> [ok |-> TRUE, isNull |-> FALSE, type |-> "undefined"]
      [] raw = "{type:pong}" -> [ok |-> TRUE, isNull |-> FALSE, type |-> "pong"]
      [] raw = "{type:snag_update}" -> [ok |-> TRUE, isNull |-> FALSE, type |-> "snag_update"]
      [] raw = "{type:notification}" -> [ok |-> TRUE, isNull |-> FALSE, type |-> "notification"]

\* IsDispatched without the test of message.type.
IsDispatchedAnyType(raw) ==
    LET m == JSONparse(raw)
    IN  m.ok /\ ~m.isNull

\* The test of onmessage that lets a message through to the listeners.  Reading
\* message.type of null throws a TypeError, caught like a parse error.
IsDispatched(raw) ==
    LET m == JSONparse(raw)
    IN  m.ok /\ ~m.isNull /\ (m.type = "snag_update" \/ m.type = "notification")

Range(q) == {q[i] : i \in 1..Len(q)}

Remove(q, x) == SelectSeq(q, LAMBDA y : y # x)

\* The registry is empty at construction; which listener functions throw is a
\* property of the functions the host passes in.
InitBusVars ==
    /\ listeners = <<>>
    /\ caps = [l \in ListenerIds |-> 0]
    /\ faulty \in SUBSET ListenerIds
    /\ received = 0
    /\ lastFrame = ""
    /\ delivered = [l \in ListenerIds |-> <<>>]
    /\ lastUpdate = 0

\* subscribe(listener): Set.add, which keeps one entry per function, and
\* returns a closure that deletes that function from the Set.
Subscribe(l) ==
    /\ caps[l] < MaxSubs
    /\ listeners' = IF l \in Range(listeners) THEN listeners ELSE Append(listeners, l)
    /\ caps' = [caps EXCEPT ![l] = caps[l] + 1]
    /\ UNCHANGED <<received, lastFrame, delivered, lastUpdate, faulty>>
    /\ UNCHANGED <<chanVars, pageVars, moreVars>>

\* One of the closures returned by subscribe(l) is called: Set.delete(l).
Unsubscribe(l) ==
    /\ caps[l] > 0
    /\ listeners' = Remove(listeners, l)
    /\ caps' = [caps EXCEPT ![l] = caps[l] - 1]
    /\ UNCHANGED <<received, lastFrame, delivered, lastUpdate, faulty>>
    /\ UNCHANGED <<chanVars, pageVars, moreVars>>

\* listenersRef.current.forEach(listener => listener(message)) inside the
\* try block: the listeners are invoked in insertion order and the first one
\* that throws ends the loop.  The result is the listeners that were invoked.
Invoked(regs, bad) ==
    {regs[i] : i \in {j \in 1..Len(regs) : \A k \in 1..(j - 1) : regs[k] \notin bad}}

\* onmessage of socket s with event.data = raw.
OnMessage(s, raw) ==
    /\ sockets[s] = "open"
    /\ received < MaxFrames
    /\ received' = received + 1
    /\ lastFrame' = raw
    /\ IF IsDispatched(raw)
       THEN /\ lastUpdate' = received + 1
            /\ delivered' = [l \in ListenerIds |->
                               IF l \in Invoked(listeners, faulty)
                               THEN Append(delivered[l], received + 1)
                               ELSE delivered[l]]
       ELSE UNCHANGED <<lastUpdate, delivered>>
    /\ UNCHANGED <<listeners, caps, faulty>>
    /\ UNCHANGED <<chanVars, pageVars, moreVars>>

\* The provider connected and authenticated: the state after connect() and the
\* open event of its socket, with a token stored.
InitConnected ==
    /\ sockets = [s \in SocketIds |-> IF s = 1 THEN "open" ELSE "none"]
    /\ wsRef = 1
    /\ timer = [s \in SocketIds |-> "none"]
    /\ timeoutRef = 0
    /\ isConnected = TRUE
    /\ token = TRUE
    /\ authOn = {1}
    /\ attempts = [s \in SocketIds |-> 0]
    /\ stopped = FALSE
    /\ disconnects = 0

\* ------------------------------------------------------------- SnagsPage
SnagIds == 1..MaxSnags

\* The response of GET /api/snags: the snags that exist, in creation order.
RECURSIVE ServerListFrom(_)
ServerListFrom(i) ==
    IF i > MaxSnags THEN <<>>
    ELSE (IF server[i] > 0 THEN <<[id |-> i, rev |-> server[i]]>> ELSE <<>>)
         \o ServerListFrom(i + 1)

ServerList == ServerListFrom(1)

Ids(list) == {list[i].id : i \in 1..Len(list)}

\* A text is a sequence of characters; a text field that is null holds Null.
Null == <<"null">>

\* The fields of a snag that the list filters and the search read.  query_no is
\* unique within a project_name.
RowKinds ==
    { [description |-> <<"A", "b">>, location |-> <<"b">>, project_name |-> <<"B">>,
       query_no |-> 1, status |-> "open", priority |-> "high"],
      [description |-> Null, location |-> <<"b", "B">>, project_name |-> <<"B">>,
       query_no |-> 2, status |-> "in_progress", priority |-> "low"],
      [description |-> <<"b", "a">>, location |-> Null, project_name |-> <<"A">>,
       query_no |-> 1, status |-> "open", priority |-> "low"],
      [description |-> <<"b", "1">>, location |-> <<"b">>, project_name |-> <<"B">>,
       query_no |-> 12, status |-> "resolved", priority |-> "high"],
      [description |-> <<"b">>, location |-> <<"b">>, project_name |-> <<"A">>,
       query_no |-> 2, status |-> "verified", priority |-> "high"] }

\* The catalogue used where the texts play no part: projects A and B in turn,
\* every third snag resolved, the first of low priority.
Catalog0 ==
    [i \in SnagIds |->
        [description |-> <<"b">>, location |-> <<"b">>,
         project_name |-> IF i % 2 = 1 THEN <<"A">> ELSE <<"B">>,
         query_no |-> (i + 1) \div 2,
         status |-> IF i % 3 = 0 THEN "resolved" ELSE "open",
         priority |-> IF i = 1 THEN "low" ELSE "high"]]

\* useState({ status: '', priority: '', project: '', search: '' })
NoFilters == [status |-> "", priority |-> "", project |-> <<>>, search |-> <<>>]

\* The query string loadSnags() builds: a parameter for each of status,
\* priority and project that is not empty; the search text is never sent.
Query(f) == [status |-> f.status, priority |-> f.priority, project |-> f.project]

\* The response of GET /api/snags?status=&priority=&project_name= when the
\* backend holds revs: the snags that exist and match every parameter given, in
\* creation order.
ListOf(revs, q) ==
    SelectSeq([i \in 1..MaxSnags |-> [id |-> i, rev |-> revs[i]]], LAMBDA s :
        /\ s.rev > 0
        /\ q.status = "" \/ catalog[s.id].status = q.status
        /\ q.priority = "" \/ catalog[s.id].priority = q.priority
        /\ q.project = <<>> \/ catalog[s.id].project_name = q.project)

ServerListFor(q) == ListOf(server, q)

NoMsg == [type |-> "none", event |-> "none", id |-> 0]

\* The messages the provider dispatches to its listeners.
Messages ==
    [type : {"snag_update"}, event : {"created", "updated", "deleted"}, id : SnagIds]
    \cup {[type |-> "notification", event |-> "created", id |-> 1]}

\* useState initial values of SnagsPage and the loadSnags() call of its mount
\* effect, with all but one of the snags already on the server.  (The projects
\* state, filled by loadProjects(), feeds only the project filter's options and
\* is not part of the model.)
InitPageVars ==
    /\ serverSeq = MaxSnags - 1
    /\ server = [i \in SnagIds |-> IF i <= serverSeq THEN 1 ELSE 0]
    /\ snags = <<>>
    /\ loading = TRUE
    /\ fetches = <<[st |-> "sent", data |-> <<>>, q |-> Query(NoFilters)]>>
    /\ realtimeUpdate = 0
    /\ nEvents = 0
    /\ lastMsg = NoMsg
    /\ prevSnags = <<>>

\* The page is not mounted: nothing of it runs.
NoPage ==
    /\ serverSeq = 0
    /\ server = [i \in SnagIds |-> 0]
    /\ snags = <<>>
    /\ loading = TRUE
    /\ fetches = <<>>
    /\ realtimeUpdate = 0
    /\ nEvents = 0
    /\ lastMsg = NoMsg
    /\ prevSnags = <<>>

\* Another client creates a snag: POST /api/snags.
ServerCreate ==
    /\ serverSeq < MaxSnags
    /\ serverSeq' = serverSeq + 1
    /\ server' = [server EXCEPT ![serverSeq + 1] = 1]
    /\ UNCHANGED <<snags, loading, fetches, realtimeUpdate,
                   nEvents, lastMsg, prevSnags>>
    /\ UNCHANGED <<chanVars, busVars, moreVars>>

\* Another client updates a snag: PUT /api/snags/{id}.
ServerUpdate(i) ==
    /\ server[i] > 0
    /\ server[i] < MaxRev
    /\ server' = [server EXCEPT ![i] = server[i] + 1]
    /\ UNCHANGED <<serverSeq, snags, loading, fetches,
                   realtimeUpdate, nEvents, lastMsg, prevSnags>>
    /\ UNCHANGED <<chanVars, busVars, moreVars>>

\* A manager deletes a snag: DELETE /api/snags/{id}.
ServerDelete(i) ==
    /\ server[i] > 0
    /\ server' = [server EXCEPT ![i] = 0]
    /\ UNCHANGED <<serverSeq, snags, loading, fetches,
                   realtimeUpdate, nEvents, lastMsg, prevSnags>>
    /\ UNCHANGED <<chanVars, busVars, moreVars>>

\* The backend answers request f: with the list as it is now, or with an error.
ServerAnswer(f, ok) ==
    /\ f \in 1..Len(fetches)
    /\ fetches[f].st = "sent"
    /\ fetches' = [fetches EXCEPT ![f] =
                     IF ok THEN [fetches[f] EXCEPT !.st = "ok",
                                                   !.data = ServerListFor(fetches[f].q)]
                     ELSE [fetches[f] EXCEPT !.st = "failed"]]
    /\ UNCHANGED <<server, serverSeq, snags, loading,
                   realtimeUpdate, nEvents, lastMsg, prevSnags>>
    /\ UNCHANGED <<chanVars, busVars, moreVars>>

\* loadSnags() up to its await: the request is issued, with the query built
\* from the filters f of the render whose loadSnags is called.
LoadSnagsIssued(f) == Append(fetches, [st |-> "sent", data |-> <<>>, q |-> Query(f)])

\* A loadSnags() whose response is dropped when a request issued later has
\* already returned.
LoadSnagsReturnIfLatest(f) ==
    /\ f \in 1..Len(fetches)
    /\ fetches[f].st \in {"ok", "failed"}
    /\ snags' = IF fetches[f].st = "ok"
                    /\ \A g \in (f + 1)..Len(fetches) : fetches[g].st # "done"
                 THEN fetches[f].data ELSE snags
    /\ loading' = FALSE
    /\ fetches' = [fetches EXCEPT ![f] = [@ EXCEPT !.st = "done", !.data = <<>>]]
    /\ UNCHANGED <<server, serverSeq, realtimeUpdate, nEvents,
                   lastMsg, prevSnags>>
    /\ UNCHANGED <<chanVars, busVars, moreVars>>

\* loadSnags() after its await: setSnags(data) on success, the catch branch
\* logs on failure, and finally setLoading(false).
LoadSnagsReturn(f) ==
    /\ f \in 1..Len(fetches)
    /\ fetches[f].st \in {"ok", "failed"}
    /\ snags' = IF fetches[f].st = "ok" THEN fetches[f].data ELSE snags
    /\ loading' = FALSE
    /\ fetches' = [fetches EXCEPT ![f] = [@ EXCEPT !.st = "done", !.data = <<>>]]
    /\ UNCHANGED <<server, serverSeq, realtimeUpdate, nEvents,
                   lastMsg, prevSnags>>
    /\ UNCHANGED <<chanVars, busVars, moreVars>>

\* DeletedReducer with the comparison inverted (=== for !==).
DeletedReducerInverted(prev, x) == SelectSeq(prev, LAMBDA s : s.id = x)

\* setSnags(prev => prev.filter(s => s.id !== message.data.id))
DeletedReducer(prev, x) == SelectSeq(prev, LAMBDA s : s.id # x)

\* The listener SnagsPage subscribes, invoked with message m by the provider's
\* onmessage.  The loadSnags it calls is the one of the render in which the
\* subscription effect last ran (its dependency is the context value alone), so
\* the query is built from `closure`.  The setLastUpdate(message) of the same
\* onmessage re-renders the provider with a new context value, which re-runs
\* the subscription effect: from then on the listener closes over the filters
\* of the latest render.  A frame taken from the connection is consumed.
SnagsListener(m) ==
    /\ nEvents < MaxEvents
    /\ nEvents' = nEvents + 1
    /\ lastMsg' = m
    /\ prevSnags' = snags
    /\ IF m.type = "snag_update"
       THEN /\ realtimeUpdate' = [event |-> m.event, time |-> nEvents + 1]
            /\ CASE m.event = "created" ->
                      /\ Len(fetches) < MaxFetches
                      /\ fetches' = LoadSnagsIssued(closure)
                      /\ snags' = snags
                 [] m.event = "updated" ->
                      /\ Len(fetches) < MaxFetches
                      /\ fetches' = LoadSnagsIssued(closure)
                      /\ snags' = snags
                 [] m.event = "deleted" ->
                      /\ snags' = DeletedReducer(snags, m.id)
                      /\ fetches' = fetches
       ELSE UNCHANGED <<realtimeUpdate, fetches, snags>>
    /\ closure' = filters
    /\ inflight' = IF inflight # <<>> /\ Head(inflight) = m THEN Tail(inflight) ELSE inflight
    /\ UNCHANGED <<server, serverSeq, loading, filters, catalog, viewVars>>
    /\ UNCHANGED <<chanVars, busVars, flowVars>>

\* ------------------------------------------------- snag detail: the data
\* The four roles of a user.
Roles == {"manager", "inspector", "contractor", "authority"}

\* The two clients: the web SnagDetailModal and the mobile SnagDetailScreen.
Clients == {"web", "mobile"}

\* How the snag's assigned_authority_ids (or the legacy assigned_authority_id)
\* relate to the user: none is assigned, the user is among them, or only
\* others are.
Assignments == {"none", "me", "others"}

\* The users that open the detail of the snag.  mine is the outcome of
\* snag.assigned_contractor_id === user.id, which only a contractor can
\* satisfy; only an authority can be among the assigned authorities.
Users ==
    {u \in [role : Roles, mine : BOOLEAN, client : Clients, auth : Assignments] :
        /\ u.mine => u.role = "contractor"
        /\ u.auth = "me" => u.role = "authority"
        /\ u.auth = "others" => u.role = "authority"}

\* The statuses of a snag, in the order of the lifecycle.
Statuses == <<"open", "in_progress", "resolved", "verified">>

\* The position of a status in the lifecycle.
Rank(s) == CHOOSE k \in 1..Len(Statuses) : Statuses[k] = s

\* A snag as GET /api/snags/{id} returns it.  Dates are instants, 0 when the
\* field is null; a text field that is null is Null.
Snag(status, started, completed, completion, done, approved, feedback, comment) ==
    [status |-> status,
     priority |-> "high",
     work_started_date |-> started,
     work_completed_date |-> completed,
     contractor_completion_date |-> completion,
     contractor_completed |-> done,
     authority_approved |-> approved,
     authority_feedback |-> feedback,
     authority_comment |-> comment]

\* A snag as the create form leaves it.
SnagCreated == Snag("open", 0, 0, 0, FALSE, FALSE, Null, Null)

\* The states of the snag when the user opens its detail, each the result of
\* earlier sessions at instant 1: created; work started from the web client
\* (no status sent); work started from the mobile client; marked complete;
\* resolved by the manager; approved from the mobile client.
SnagStates ==
    {SnagCreated,
     Snag("open", 1, 0, 0, FALSE, FALSE, Null, Null),
     Snag("in_progress", 1, 0, 0, FALSE, FALSE, Null, Null),
     Snag("in_progress", 1, 1, 1, TRUE, FALSE, Null, Null),
     Snag("resolved", 1, 1, 1, TRUE, FALSE, Null, Null),
     Snag("verified", 1, 1, 1, TRUE, TRUE, <<"o", "k">>, <<>>)}

\* value || '' of a text field.
OrEmpty(text) == IF text = Null THEN <<>> ELSE text

\* The state of the detail view opened on a snag: formData of the web modal
\* (status, priority, authority_feedback), editMode and loading; on the mobile
\* screen editedSnag.priority, feedback, authorityComment,
\* contractorCompletionDate, isEditing, isSaving and showFeedbackModal, as
\* fetchSnag and startEditing set them.  alert is the last alert shown, and
\* touched tells that the status select of this form was changed.
FreshForm(snag, open) ==
    [open |-> open,
     editMode |-> FALSE,
     loading |-> FALSE,
     status |-> snag.status,
     touched |-> FALSE,
     priority |-> snag.priority,
     feedback |-> OrEmpty(snag.authority_feedback),
     comment |-> OrEmpty(snag.authority_comment),
     date |-> snag.contractor_completion_date,
     modal |-> FALSE,
     alert |-> ""]

\* No detail view is open: the state of the other screens.
NoFlow ==
    /\ user = [role |-> "manager", mine |-> FALSE, client |-> "web", auth |-> "none"]
    /\ srv = SnagCreated
    /\ loc = SnagCreated
    /\ form = FreshForm(SnagCreated, FALSE)
    /\ puts = <<>>
    /\ clock = 2
    /\ fetching = 0

\* useState initial values of the filters, and the subscription made by the
\* first render; no frame is on its way.
InitSyncVars ==
    /\ filters = NoFilters
    /\ closure = NoFilters
    /\ catalog = Catalog0
    /\ inflight = <<>>

\* The page sizes offered, in tens: the select offers 10, 25, 50 and 100.
PageSizes == 1..MaxPageSize

\* No handler of the list view has run yet.
NoView == [op |-> "none", page |-> 0]

\* useState(1) and useState(10): the first page, the smallest page size.
InitViewVars ==
    /\ currentPage = 1
    /\ itemsPerPage = 1
    /\ lastView = NoView

InitMore == InitSyncVars /\ InitViewVars /\ NoFlow

InitPage == InitConnected /\ InitBusVars /\ faulty = {} /\ InitPageVars /\ InitMore

NextPage ==
    \/ ServerCreate
    \/ \E i \in SnagIds : ServerUpdate(i)
    \/ \E i \in SnagIds : ServerDelete(i)
    \/ \E f \in 1..MaxFetches, ok \in BOOLEAN : ServerAnswer(f, ok)
    \/ \E f \in 1..MaxFetches : LoadSnagsReturn(f)
    \/ \E m \in Messages : SnagsListener(m)

SpecPage == InitPage /\ [][NextPage]_vars


\* The page after its first load has completed, the server holding any list.
InitLoaded ==
    /\ serverSeq = MaxSnags
    /\ server \in [SnagIds -> 0..MaxRev]
    /\ snags = ServerList
    /\ loading = FALSE
    /\ fetches = <<[st |-> "done", data |-> <<>>, q |-> Query(NoFilters)]>>
    /\ realtimeUpdate = 0
    /\ nEvents = 0
    /\ lastMsg = NoMsg
    /\ prevSnags = <<>>

InitListener == InitConnected /\ InitBusVars /\ faulty = {} /\ InitLoaded /\ InitMore

\* The listener and the requests it issues, with no other client changing the
\* server.
NextListener ==
    \/ \E m \in Messages : SnagsListener(m)
    \/ \E f \in 1..MaxFetches, ok \in BOOLEAN : ServerAnswer(f, ok)
    \/ \E f \in 1..MaxFetches : LoadSnagsReturn(f)

SpecListener == InitListener /\ [][NextListener]_vars

\* The filters the runs of the reconciliation are made with: none, or project A.
FilterChoices == {NoFilters, [NoFilters EXCEPT !.project = <<"A">>]}

\* The page some time after a load: the user may have chosen a project since
\* the provider last rendered (the list was then loaded again for it), and one
\* snag has since been created, updated or deleted on the server by another
\* client.  The requests made so far are left out of the run.
InitStale ==
    /\ serverSeq = MaxSnags
    /\ server \in [SnagIds -> 0..MaxRev]
    /\ catalog = Catalog0
    /\ filters \in FilterChoices
    /\ closure \in FilterChoices
    /\ \E i \in SnagIds, r \in 0..MaxRev :
          /\ r <= server[i] \/ server[i] = 0
          /\ (r = 0 /\ server[i] > 0) => \A j \in SnagIds : j > i => server[j] = 0
          /\ snags = ListOf([server EXCEPT ![i] = r], Query(filters))
    /\ loading = FALSE
    /\ fetches = <<>>
    /\ realtimeUpdate = 0
    /\ nEvents = 0
    /\ lastMsg = NoMsg
    /\ prevSnags = <<>>
    /\ inflight = <<>>

InitReconcile ==
    InitConnected /\ InitBusVars /\ faulty = {} /\ InitStale /\ InitViewVars /\ NoFlow

\* The first delivery of a message.
Delivered(m) == nEvents = 0 /\ SnagsListener(m)

\* The same message is delivered a second time (at-least-once delivery).
Redelivered == nEvents = 1 /\ SnagsListener(lastMsg)

\* A message delivered once or twice to the listener and the requests this
\* causes, with no other client changing the server meanwhile.
NextReconcile ==
    \/ \E m \in Messages : Delivered(m)
    \/ Redelivered
    \/ \E f \in 1..MaxFetches, ok \in BOOLEAN : ServerAnswer(f, ok)
    \/ \E f \in 1..MaxFetches : LoadSnagsReturn(f)

SpecReconcile == InitReconcile /\ [][NextReconcile]_vars

\* ------------------------------------------------------------ derived view
\* String.prototype.toLowerCase, on the characters of the model.
LowerChar(c) == CASE c = "A" -> "a" [] c = "B" -> "b" [] OTHER -> c

\* ToLowerCase that leaves the text as it is.
KeepCase(t) == t

ToLowerCase(t) == [i \in 1..Len(t) |-> LowerChar(t[i])]

\* String.prototype.includes: s occurs in t as a contiguous run.
Includes(t, s) == \E k \in 0..(Len(t) - Len(s)) : SubSeq(t, k + 1, k + Len(s)) = s

Digits == <<"0", "1", "2", "3", "4", "5", "6", "7", "8", "9">>

\* String(n), for the numbers below one hundred.
StringOf(n) ==
    IF n < 10 THEN <<Digits[n + 1]>>
    ELSE <<Digits[(n \div 10) + 1], Digits[(n % 10) + 1]>>

\* field?.toLowerCase().includes(search): undefined, so falsy, on a null field.
FieldIncludes(field, search) == field # Null /\ Includes(ToLowerCase(field), search)

\* The callback of snags.filter in filteredSnags.
SearchMatches(row, text) ==
    IF text = <<>> THEN TRUE
    ELSE LET search == ToLowerCase(text)
         IN  \/ FieldIncludes(row.description, search)
             \/ FieldIncludes(row.location, search)
             \/ FieldIncludes(row.project_name, search)
             \/ Includes(StringOf(row.query_no), search)

filteredSnags == SelectSeq(snags, LAMBDA s : SearchMatches(catalog[s.id], filters.search))

\* Math.ceil(a / b) for a >= 0 and b > 0.
Ceil(a, b) == (a + b - 1) \div b

totalPages == Ceil(Len(filteredSnags), itemsPerPage)

\* Array.prototype.slice(start, end): a negative index counts from the end, and
\* both are clamped to the array.
Slice(arr, start, end) ==
    LET rel(x) == IF x < 0 THEN (IF Len(arr) + x < 0 THEN 0 ELSE Len(arr) + x)
                  ELSE (IF x > Len(arr) THEN Len(arr) ELSE x)
    IN  SubSeq(arr, rel(start) + 1, rel(end))

paginatedSnags ==
    LET startIndex == (currentPage - 1) * itemsPerPage
    IN  Slice(filteredSnags, startIndex, startIndex + itemsPerPage)

\* The Pagination component is rendered under the table when the list is shown
\* and holds more rows than the smallest page size (filteredSnags.length > 10).
PaginationShown == ~loading /\ Len(filteredSnags) > 1

\* The arguments with which the enabled buttons of Pagination call
\* onPageChange: first, previous, the window of page numbers, the first and
\* last page beside the window, next, last.
PageButtons ==
    LET lo(x, y) == IF x < y THEN x ELSE y
        hi(x, y) == IF x > y THEN x ELSE y
        start0 == hi(1, currentPage - (maxVisiblePages \div 2))
        endPage == lo(totalPages, start0 + maxVisiblePages - 1)
        startPage == IF endPage - start0 + 1 < maxVisiblePages
                     THEN hi(1, endPage - maxVisiblePages + 1) ELSE start0
    IN  (IF currentPage # 1 THEN {1, currentPage - 1} ELSE {})
        \cup (startPage..endPage)
        \cup (IF startPage > 1 THEN {1} ELSE {})
        \cup (IF endPage < totalPages THEN {totalPages} ELSE {})
        \cup (IF currentPage # totalPages THEN {currentPage + 1, totalPages} ELSE {})

\* handlePageChange(page), called by a button of Pagination.
HandlePageChange(page) ==
    /\ PaginationShown
    /\ page \in PageButtons
    /\ page <= MaxPage
    /\ currentPage' = page
    /\ lastView' = [op |-> "page", page |-> currentPage]
    /\ UNCHANGED <<itemsPerPage, syncVars>>
    /\ UNCHANGED <<chanVars, busVars, pageVars, flowVars>>

\* handleItemsPerPageChange(newItemsPerPage), called by the onChange of the
\* page size select.
HandleItemsPerPageChange(newItemsPerPage) ==
    /\ PaginationShown
    /\ newItemsPerPage \in PageSizes \ {itemsPerPage}
    /\ itemsPerPage' = newItemsPerPage
    /\ currentPage' = 1
    /\ lastView' = [op |-> "size", page |-> currentPage]
    /\ UNCHANGED syncVars
    /\ UNCHANGED <<chanVars, busVars, pageVars, flowVars>>

\* The texts typed into the search box.
Searches == {<<>>, <<"a">>, <<"A">>, <<"a", "b">>, <<"2">>, <<"x">>}

\* onChange of the search box: setFilters({ ...filters, search }), and the
\* effect on the four filter values then sets currentPage to 1.  The list is
\* not requested again: search is not a dependency of the loading effect.
SetSearch(text) ==
    /\ text \in Searches \ {filters.search}
    /\ filters' = [filters EXCEPT !.search = text]
    /\ currentPage' = 1
    /\ lastView' = [op |-> "search", page |-> currentPage]
    /\ UNCHANGED <<closure, catalog, inflight, itemsPerPage>>
    /\ UNCHANGED <<chanVars, busVars, pageVars, flowVars>>

\* The assignments of fields to the snags: query_no unique within a project.
Catalogs ==
    {c \in [SnagIds -> RowKinds] : \A i, j \in SnagIds : i # j => c[i] # c[j]}

\* The page with its list loaded, whatever the snags are.
InitView ==
    /\ InitConnected /\ InitBusVars /\ faulty = {}
    /\ serverSeq = MaxSnags
    /\ server \in [SnagIds -> 0..1]
    /\ catalog \in Catalogs
    /\ filters = NoFilters
    /\ closure = NoFilters
    /\ inflight = <<>>
    /\ snags = ServerListFor(Query(NoFilters))
    /\ loading = FALSE
    /\ fetches = <<>>
    /\ realtimeUpdate = 0
    /\ nEvents = 0
    /\ lastMsg = NoMsg
    /\ prevSnags = <<>>
    /\ InitViewVars
    /\ NoFlow

NextView ==
    \/ \E text \in Searches : SetSearch(text)
    \/ \E page \in 0..MaxPage : HandlePageChange(page)
    \/ \E n \in PageSizes : HandleItemsPerPageChange(n)

SpecView == InitView /\ [][NextView]_vars

\* ---------------------------------------------- mobile list (snags.tsx)
\* The UTF-16 code unit of a character, by which Array.prototype.sort orders
\* strings.
CharCode(c) ==
    CASE c = "0" -> 48 [] c = "1" -> 49 [] c = "2" -> 50
      [] c = "A" -> 65 [] c = "B" -> 66 [] c = "U" -> 85
      [] c = "a" -> 97 [] c = "b" -> 98 [] OTHER -> 120

\* a < b for strings: the first differing code unit decides, a proper prefix
\* is smaller.
TextLess(a, b) ==
    \E k \in 1..(Len(b)) :
        /\ \A j \in 1..(k - 1) : j <= Len(a) /\ a[j] = b[j]
        /\ \/ k = Len(a) + 1
           \/ k <= Len(a) /\ CharCode(a[k]) < CharCode(b[k])

\* Object.keys(grouped).sort(): the keys in ascending order.
RECURSIVE SortKeys(_)
SortKeys(keys) ==
    IF keys = {} THEN <<>>
    ELSE LET least == CHOOSE x \in keys : \A y \in keys : x = y \/ TextLess(x, y)
         IN  <<least>> \o SortKeys(keys \ {least})

\* group.sort((a, b) => b.query_no - a.query_no): descending query_no, equal
\* ones in their order of insertion.
RECURSIVE SortByQueryNoDesc(_)
SortByQueryNoDesc(group) ==
    IF group = <<>> THEN <<>>
    ELSE LET no(i) == catalog[group[i].id].query_no
             top == CHOOSE i \in 1..Len(group) :
                       /\ \A j \in 1..Len(group) : no(j) <= no(i)
                       /\ \A j \in 1..(i - 1) : no(j) < no(i)
         IN  <<group[top]>>
             \o SortByQueryNoDesc(SubSeq(group, 1, top - 1) \o SubSeq(group, top + 1, Len(group)))

\* The callback of the search filter of filterAndGroupSnags.  It calls
\* toLowerCase on description, location and project_name without a null check:
\* a null field reached by the evaluation throws a TypeError.
MobileSearchThrows(row, searchQuery) ==
    LET q == ToLowerCase(searchQuery)
    IN  \/ row.description = Null
        \/ /\ ~Includes(ToLowerCase(row.description), q)
           /\ \/ row.location = Null
              \/ /\ ~Includes(ToLowerCase(row.location), q)
                 /\ row.project_name = Null

MobileSearchMatches(row, searchQuery) ==
    LET q == ToLowerCase(searchQuery)
    IN  \/ Includes(ToLowerCase(row.description), q)
        \/ Includes(ToLowerCase(row.location), q)
        \/ Includes(ToLowerCase(row.project_name), q)
        \/ Includes(StringOf(row.query_no), searchQuery)

\* snag.project_name || 'Uncategorized'
Uncategorized == <<"U">>

GroupKey(row) ==
    IF row.project_name = Null \/ row.project_name = <<>>
    THEN Uncategorized ELSE row.project_name

\* filterAndGroupSnags(): the groups passed to setGroupedSnags, or the
\* exception thrown.
filterAndGroupSnags(list, searchQuery, filterStatus) ==
    LET byStatus == IF filterStatus # "all"
                    THEN SelectSeq(list, LAMBDA s : catalog[s.id].status = filterStatus)
                    ELSE list
        threw == /\ searchQuery # <<>>
                 /\ \E i \in 1..Len(byStatus) :
                       MobileSearchThrows(catalog[byStatus[i].id], searchQuery)
        filtered == IF searchQuery # <<>>
                    THEN SelectSeq(byStatus, LAMBDA s :
                             MobileSearchMatches(catalog[s.id], searchQuery))
                    ELSE byStatus
        keys == {GroupKey(catalog[filtered[i].id]) : i \in 1..Len(filtered)}
        sorted == SortKeys(keys)
    IN  IF threw THEN [threw |-> TRUE, groups |-> <<>>]
        ELSE [threw |-> FALSE,
              groups |-> [k \in 1..Len(sorted) |->
                  [projectName |-> sorted[k],
                   snags |-> SortByQueryNoDesc(SelectSeq(filtered, LAMBDA s :
                                 GroupKey(catalog[s.id]) = sorted[k]))]]]

\* ------------------------------------------------------------ list filters
\* The values chosen in the status, priority and project selects.
FilterValues(key) ==
    CASE key = "status" -> {"", "open"}
      [] key = "priority" -> {"", "high"}
      [] key = "project" -> {<<>>, <<"A">>}

\* SetFilter that leaves the page where it is.
SetFilterKeepingPage(key, value) ==
    /\ value \in FilterValues(key) \ {filters[key]}
    /\ Len(fetches) < MaxFetches
    /\ filters' = [filters EXCEPT ![key] = value]
    /\ fetches' = LoadSnagsIssued(filters')
    /\ lastView' = [op |-> "filter", page |-> currentPage]
    /\ UNCHANGED <<closure, catalog, inflight, currentPage, itemsPerPage>>
    /\ UNCHANGED <<server, serverSeq, snags, loading, realtimeUpdate, nEvents,
                   lastMsg, prevSnags>>
    /\ UNCHANGED <<chanVars, busVars, flowVars>>

\* onChange of the status, priority or project select:
\* setFilters({ ...filters, [key]: value }).  After the render the loading
\* effect calls the loadSnags of that render (and loadProjects), and the effect
\* on the four filter values sets currentPage to 1.  The subscription effect
\* does not run again.
SetFilter(key, value) ==
    /\ value \in FilterValues(key) \ {filters[key]}
    /\ Len(fetches) < MaxFetches
    /\ filters' = [filters EXCEPT ![key] = value]
    /\ fetches' = LoadSnagsIssued(filters')
    /\ currentPage' = 1
    /\ lastView' = [op |-> "filter", page |-> currentPage]
    /\ UNCHANGED <<closure, catalog, inflight, itemsPerPage>>
    /\ UNCHANGED <<server, serverSeq, snags, loading, realtimeUpdate, nEvents,
                   lastMsg, prevSnags>>
    /\ UNCHANGED <<chanVars, busVars, flowVars>>

\* onClick of "Clear all", shown while a filter is set: setFilters of the
\* initial value.  The list is requested again only when status, priority or
\* project changed.
ClearAll ==
    /\ filters # NoFilters
    /\ filters' = NoFilters
    /\ IF Query(filters) # Query(NoFilters)
       THEN /\ Len(fetches) < MaxFetches
            /\ fetches' = LoadSnagsIssued(NoFilters)
       ELSE fetches' = fetches
    /\ currentPage' = 1
    /\ lastView' = [op |-> "clear", page |-> currentPage]
    /\ UNCHANGED <<closure, catalog, inflight, itemsPerPage>>
    /\ UNCHANGED <<server, serverSeq, snags, loading, realtimeUpdate, nEvents,
                   lastMsg, prevSnags>>
    /\ UNCHANGED <<chanVars, busVars, flowVars>>

\* The page with its list loaded and every snag on the server.
InitFilter ==
    /\ InitConnected /\ InitBusVars /\ faulty = {}
    /\ serverSeq = MaxSnags
    /\ server = [i \in SnagIds |-> 1]
    /\ InitSyncVars
    /\ snags = ServerListFor(Query(NoFilters))
    /\ loading = FALSE
    /\ fetches = <<>>
    /\ realtimeUpdate = 0
    /\ nEvents = 0
    /\ lastMsg = NoMsg
    /\ prevSnags = <<>>
    /\ InitViewVars
    /\ NoFlow

NextFilter ==
    \/ \E key \in {"status", "priority", "project"} :
          \E value \in FilterValues(key) : SetFilter(key, value)
    \/ ClearAll
    \/ \E text \in Searches : SetSearch(text)
    \/ \E page \in 0..MaxPage : HandlePageChange(page)
    \/ \E n \in PageSizes : HandleItemsPerPageChange(n)
    \/ \E f \in 1..MaxFetches, ok \in BOOLEAN : ServerAnswer(f, ok)
    \/ \E f \in 1..MaxFetches : LoadSnagsReturn(f)

SpecFilter == InitFilter /\ [][NextFilter]_vars

InitBus == InitConnected /\ InitBusVars /\ NoPage /\ InitMore

NextBus ==
    \/ \E l \in ListenerIds : Subscribe(l)
    \/ \E l \in ListenerIds : Unsubscribe(l)
    \/ \E s \in SocketIds, raw \in RawFrames : OnMessage(s, raw)

SpecBus == InitBus /\ [][NextBus]_vars

Init == InitChannel /\ InitBusVars /\ faulty = {} /\ NoPage /\ InitMore

Next ==
    \/ Connect
    \/ Disconnect
    \/ Login
    \/ Logout
    \/ \E s \in SocketIds : OnOpen(s)
    \/ \E s \in SocketIds : OnClose(s)
    \/ \E t \in SocketIds : TimerFire(t)

Spec == Init /\ [][Next]_vars

\* --------------------------------------------- snag detail: the handlers
isManager == user.role = "manager"
isInspector == user.role = "inspector"
isContractor == user.role = "contractor"
isAuthority == user.role = "authority"

\* const canEdit = isManager || isInspector, the same in both clients.
canEdit == isManager \/ isInspector

\* snag.assigned_contractor_id === user?.id
AssignedToUser == user.mine

\* A check that lets every user through.
AnyUserMayUpdate == TRUE

\* canUpdateStatus() of the mobile screen.
canUpdateStatus ==
    isManager \/ (isContractor /\ AssignedToUser) \/ isAuthority

\* The characters String.prototype.trim removes.
Whitespace == {" "}

RECURSIVE TrimStart(_)
TrimStart(text) ==
    IF text # <<>> /\ Head(text) \in Whitespace THEN TrimStart(Tail(text)) ELSE text

RECURSIVE TrimEnd(_)
TrimEnd(text) ==
    IF text # <<>> /\ text[Len(text)] \in Whitespace
    THEN TrimEnd(SubSeq(text, 1, Len(text) - 1)) ELSE text

\* String.prototype.trim
Trim(text) == TrimEnd(TrimStart(text))

\* The texts typed into the feedback box of the authority, into the comment
\* box, and into the feedback box of the edit form.
Feedbacks == {<<>>, <<" ">>, <<"o", "k">>}
Comments == {<<>>, <<"c">>}
Notes == {<<"n">>}

\* The workflow actions of the permission table.
Kinds == {"start_work", "mark_complete", "resolve", "approve", "edit"}

\* The other screens stay as they are while the detail view is used.
OnlyDetail == UNCHANGED <<chanVars, busVars, pageVars, syncVars, viewVars>>

\* api.put / axios.put of `/api/snags/${id}` with body: the request is on its
\* way.  seen is the status the view showed when the request was issued, live
\* tells that the component instance that issued it is still mounted.
Issue(kind, body) ==
    /\ Len(puts) < MaxPuts
    /\ puts' = Append(puts, [kind |-> kind, body |-> body, seen |-> loc.status,
                             st |-> "sent", live |-> TRUE])

\* The user is still at work on the snag: the run ends with the last request.
AtWork == Len(puts) < MaxPuts

\* The instance of the web modal is unmounted.
Unmounted(reqs) == [i \in 1..Len(reqs) |-> [reqs[i] EXCEPT !.live = FALSE]]

\* The backend's PUT /api/snags/{id}: the fields of the body replace the stored
\* ones.
Merge(snag, body) ==
    [f \in DOMAIN snag |-> IF f \in DOMAIN body THEN body[f] ELSE snag[f]]

\* The backend answers request i: it applies the update, or rejects it.
PutAnswer(i, ok) ==
    /\ i \in 1..Len(puts)
    /\ puts[i].st = "sent"
    /\ srv' = IF ok THEN Merge(srv, puts[i].body) ELSE srv
    /\ puts' = [puts EXCEPT ![i].st = IF ok THEN "ok" ELSE "failed"]
    /\ UNCHANGED <<user, loc, form, clock, fetching>>
    /\ OnlyDetail

\* ---- web: SnagDetailModal
\* The modal shows its view mode (the role-based actions), not the edit form.
ViewMode == form.open /\ ~(form.editMode /\ canEdit)

\* The buttons the web modal renders and leaves enabled, by workflow action.
WebOffers(kind) ==
    /\ user.client = "web"
    /\ form.open
    /\ CASE kind = "start_work" ->
              /\ ViewMode /\ isContractor /\ AssignedToUser
              /\ loc.work_started_date = 0
              /\ ~form.loading
         [] kind = "mark_complete" ->
              /\ ViewMode /\ isContractor /\ AssignedToUser
              /\ loc.work_started_date # 0 /\ loc.work_completed_date = 0
              /\ ~form.loading
         [] kind = "approve" ->
              /\ ViewMode /\ isAuthority
              /\ ~(form.loading \/ loc.status = "resolved")
         [] kind = "edit" -> canEdit /\ (ViewMode \/ ~form.loading)
         [] OTHER -> FALSE

\* handleUpdate(updates) up to its await: setLoading(true) and the request.
HandleUpdate(kind, updates) ==
    /\ Issue(kind, updates)
    /\ form' = [form EXCEPT !.loading = TRUE]
    /\ UNCHANGED <<user, srv, loc, fetching>>
    /\ OnlyDetail

\* handleContractorStartWork, onClick of "Start Work".
HandleContractorStartWork ==
    /\ WebOffers("start_work")
    /\ HandleUpdate("start_work", [work_started_date |-> clock])
    /\ clock' = clock + 1

\* handleContractorComplete, onClick of "Mark as Completed".
HandleContractorComplete ==
    /\ WebOffers("mark_complete")
    /\ HandleUpdate("mark_complete",
                    [contractor_completed |-> TRUE, work_completed_date |-> clock])
    /\ clock' = clock + 1

\* handleAuthorityApprove, onClick of "Approve Work".
HandleAuthorityApprove ==
    /\ WebOffers("approve")
    /\ HandleUpdate("approve",
                    [authority_approved |-> TRUE, authority_feedback |-> form.feedback])
    /\ clock' = clock

\* setEditMode(true) of "Edit Snag", setEditMode(false) of "Cancel".
SetEditMode(mode) ==
    /\ AtWork
    /\ user.client = "web"
    /\ form.open /\ canEdit
    /\ form.editMode # mode
    /\ form' = [form EXCEPT !.editMode = mode]
    /\ UNCHANGED <<user, srv, loc, puts, clock, fetching>>
    /\ OnlyDetail

\* onChange of the status select of the edit form.
WebSetStatus(status) ==
    /\ AtWork
    /\ user.client = "web"
    /\ form.open /\ form.editMode /\ canEdit
    /\ status # form.status
    /\ form' = [form EXCEPT !.status = status, !.touched = TRUE]
    /\ UNCHANGED <<user, srv, loc, puts, clock, fetching>>
    /\ OnlyDetail

\* onChange of a feedback textarea: the one of the authority actions, or the
\* one the edit form shows to a manager.
WebSetFeedback(text) ==
    /\ AtWork
    /\ user.client = "web"
    /\ form.open
    /\ \/ ViewMode /\ isAuthority /\ text \in Feedbacks
       \/ form.editMode /\ canEdit /\ (isManager \/ isAuthority) /\ text \in Notes
    /\ text # form.feedback
    /\ form' = [form EXCEPT !.feedback = text]
    /\ UNCHANGED <<user, srv, loc, puts, clock, fetching>>
    /\ OnlyDetail

\* handleSaveEdit, onClick of "Save Changes": the whole formData is sent.
HandleSaveEdit ==
    /\ user.client = "web"
    /\ form.open /\ form.editMode /\ canEdit
    /\ ~form.loading
    /\ HandleUpdate("edit", [status |-> form.status, priority |-> form.priority,
                             authority_feedback |-> form.feedback])
    /\ clock' = clock

\* onClose of the modal (the X button, a click on the overlay):
\* setSelectedSnag(null).
CloseModal ==
    /\ AtWork
    /\ user.client = "web"
    /\ form.open
    /\ form' = [form EXCEPT !.open = FALSE]
    /\ puts' = Unmounted(puts)
    /\ UNCHANGED <<user, srv, loc, clock, fetching>>
    /\ OnlyDetail

\* onClick of the row of the list: setSelectedSnag(snag) mounts a new modal on
\* the row, which is the one shown before or the one a list response brought
\* since.
OpenModal ==
    /\ AtWork
    /\ user.client = "web"
    /\ ~form.open
    /\ \E row \in {loc, srv} :
          /\ loc' = row
          /\ form' = FreshForm(row, TRUE)
    /\ UNCHANGED <<user, srv, puts, clock, fetching>>
    /\ OnlyDetail

\* handleUpdate after its await.  Success: onUpdated() closes whatever modal
\* is open and requests the list.  Failure: the alert; setLoading(false) acts
\* on the instance that issued the request.
HandleUpdateReturn(i) ==
    /\ user.client = "web"
    /\ i \in 1..Len(puts)
    /\ puts[i].st \in {"ok", "failed"}
    /\ IF puts[i].st = "ok"
       THEN /\ form' = [form EXCEPT !.open = FALSE]
            /\ puts' = [Unmounted(puts) EXCEPT ![i].st = "done"]
            /\ Len(fetches) < MaxFetches
            /\ fetches' = LoadSnagsIssued(filters)
       ELSE /\ form' = [form EXCEPT !.alert = "Update failed",
                                    !.loading = IF puts[i].live THEN FALSE ELSE @]
            /\ puts' = [puts EXCEPT ![i].st = "done"]
            /\ fetches' = fetches
    /\ UNCHANGED <<user, srv, loc, clock, fetching>>
    /\ UNCHANGED <<server, serverSeq, snags, loading, realtimeUpdate, nEvents,
                   lastMsg, prevSnags>>
    /\ UNCHANGED <<chanVars, busVars, syncVars, viewVars>>

\* ---- mobile: SnagDetailScreen
\* The buttons the mobile screen renders, by workflow action.
MobileOffers(kind) ==
    /\ user.client = "mobile"
    /\ CASE kind = "start_work" ->
              /\ canUpdateStatus
              /\ isContractor \/ isManager
              /\ loc.status # "verified" /\ loc.status = "open"
         [] kind = "mark_complete" ->
              /\ canUpdateStatus
              /\ isContractor /\ loc.status # "verified"
              /\ loc.status \in {"in_progress", "open"}
              /\ ~loc.contractor_completed
         [] kind = "resolve" ->
              /\ canUpdateStatus
              /\ isManager /\ loc.status # "verified"
              /\ loc.status = "in_progress"
         [] kind = "approve" ->
              \/ form.modal
              \/ /\ canUpdateStatus
                 /\ isAuthority
                 /\ loc.status \in {"resolved", "in_progress"}
                 /\ ~loc.authority_approved
         [] kind = "edit" -> canEdit /\ (~form.editMode \/ ~form.loading)
         [] OTHER -> FALSE

\* updateStatus(newStatus) up to its await.
UpdateStatus(kind, newStatus) ==
    LET started == newStatus = "in_progress" /\ loc.work_started_date = 0
        completed == newStatus = "resolved" /\ loc.work_completed_date = 0
        updateData == IF started
                      THEN [status |-> newStatus, work_started_date |-> clock]
                      ELSE IF completed
                      THEN [status |-> newStatus, work_completed_date |-> clock]
                      ELSE [status |-> newStatus]
    IN  /\ Issue(kind, updateData)
        /\ clock' = IF started \/ completed THEN clock + 1 ELSE clock
        /\ UNCHANGED <<user, srv, loc, form, fetching>>
        /\ OnlyDetail

\* onPress of "Start Work": updateStatus('in_progress').
MobileStartWork == MobileOffers("start_work") /\ UpdateStatus("start_work", "in_progress")

\* onPress of "Mark as Resolved": updateStatus('resolved').
MobileResolve == MobileOffers("resolve") /\ UpdateStatus("resolve", "resolved")

\* handleCompletionDateConfirm(date) of the date picker in the completion
\* section.
HandleCompletionDateConfirm(date) ==
    /\ AtWork
    /\ MobileOffers("mark_complete")
    /\ date # form.date
    /\ form' = [form EXCEPT !.date = date]
    /\ UNCHANGED <<user, srv, loc, puts, clock, fetching>>
    /\ OnlyDetail

\* submitContractorCompletion up to its await, onPress of "Mark Work Complete".
SubmitContractorCompletion ==
    /\ MobileOffers("mark_complete")
    /\ Issue("mark_complete",
             IF form.date # 0
             THEN [contractor_completed |-> TRUE, work_completed_date |-> clock,
                   contractor_completion_date |-> form.date]
             ELSE [contractor_completed |-> TRUE, work_completed_date |-> clock])
    /\ clock' = clock + 1
    /\ UNCHANGED <<user, srv, loc, form, fetching>>
    /\ OnlyDetail

\* setShowFeedbackModal(true) of "Approve & Add Feedback",
\* setShowFeedbackModal(false) of the modal's "Cancel".
SetShowFeedbackModal(show) ==
    /\ AtWork
    /\ form.modal # show
    /\ show => MobileOffers("approve")
    /\ user.client = "mobile"
    /\ form' = [form EXCEPT !.modal = show]
    /\ UNCHANGED <<user, srv, loc, puts, clock, fetching>>
    /\ OnlyDetail

\* onChangeText of the feedback box of the modal: setFeedback.
SetFeedback(text) ==
    /\ AtWork
    /\ user.client = "mobile" /\ form.modal
    /\ text # form.feedback
    /\ form' = [form EXCEPT !.feedback = text]
    /\ UNCHANGED <<user, srv, loc, puts, clock, fetching>>
    /\ OnlyDetail

\* onChangeText of the comment box of the modal: setAuthorityComment.
SetAuthorityComment(text) ==
    /\ AtWork
    /\ user.client = "mobile" /\ form.modal
    /\ text # form.comment
    /\ form' = [form EXCEPT !.comment = text]
    /\ UNCHANGED <<user, srv, loc, puts, clock, fetching>>
    /\ OnlyDetail

\* submitFeedback up to its await, onPress of "Approve & Submit".
SubmitFeedback ==
    /\ user.client = "mobile" /\ form.modal
    /\ IF Trim(form.feedback) = <<>>
       THEN /\ form' = [form EXCEPT !.alert = "Please enter feedback"]
            /\ puts' = puts
       ELSE /\ Issue("approve", [authority_feedback |-> form.feedback,
                                 authority_comment |-> form.comment,
                                 authority_approved |-> TRUE,
                                 status |-> "verified"])
            /\ form' = form
    /\ UNCHANGED <<user, srv, loc, clock, fetching>>
    /\ OnlyDetail

\* startEditing and cancelEditing.
SetIsEditing(editing) ==
    /\ AtWork
    /\ user.client = "mobile" /\ canEdit
    /\ form.editMode # editing
    /\ form' = [form EXCEPT !.editMode = editing, !.priority = loc.priority]
    /\ UNCHANGED <<user, srv, loc, puts, clock, fetching>>
    /\ OnlyDetail

\* The priority picker of the edit form: setEditedSnag({...editedSnag, priority}).
SetPriority(priority) ==
    /\ AtWork
    /\ user.client = "mobile" /\ canEdit /\ form.editMode
    /\ priority # form.priority
    /\ form' = [form EXCEPT !.priority = priority]
    /\ UNCHANGED <<user, srv, loc, puts, clock, fetching>>
    /\ OnlyDetail

\* saveChanges up to its await: only the changed fields are sent, and nothing
\* when none changed.
SaveChanges ==
    /\ user.client = "mobile" /\ canEdit /\ form.editMode
    /\ ~form.loading
    /\ IF form.priority = loc.priority
       THEN /\ form' = [form EXCEPT !.alert = "No changes to save", !.editMode = FALSE]
            /\ puts' = puts
       ELSE /\ Issue("edit", [priority |-> form.priority])
            /\ form' = [form EXCEPT !.loading = TRUE]
    /\ UNCHANGED <<user, srv, loc, clock, fetching>>
    /\ OnlyDetail

\* Handlers that call fetchSnag() after their await whatever the outcome.
MobileReturnRefreshing(i) ==
    /\ user.client = "mobile"
    /\ i \in 1..Len(puts)
    /\ puts[i].st \in {"ok", "failed"}
    /\ puts' = [puts EXCEPT ![i].st = "done"]
    /\ form' = [form EXCEPT !.alert = IF puts[i].st = "ok" THEN "Success" ELSE "Error"]
    /\ fetching' = fetching + 1
    /\ UNCHANGED <<user, srv, loc, clock>>
    /\ OnlyDetail

\* The four handlers of the mobile screen after their await.  Success: the
\* alert, the handler's own state changes, and fetchSnag().  Failure: the
\* alert.
MobileReturn(i) ==
    /\ user.client = "mobile"
    /\ i \in 1..Len(puts)
    /\ puts[i].st \in {"ok", "failed"}
    /\ puts' = [puts EXCEPT ![i].st = "done"]
    /\ IF puts[i].st = "ok"
       THEN /\ form' = [form EXCEPT
                   !.alert = "Success",
                   !.modal = IF puts[i].kind = "approve" THEN FALSE ELSE @,
                   !.editMode = IF puts[i].kind = "edit" THEN FALSE ELSE @,
                   !.loading = IF puts[i].kind = "edit" THEN FALSE ELSE @]
            /\ fetching' = fetching + 1
       ELSE /\ form' = [form EXCEPT
                   !.alert = "Error",
                   !.loading = IF puts[i].kind = "edit" THEN FALSE ELSE @]
            /\ fetching' = fetching
    /\ UNCHANGED <<user, srv, loc, clock>>
    /\ OnlyDetail

\* fetchSnag after its await: the snag, the feedback, the comment and the
\* completion date are taken from the response.
FetchSnagReturn ==
    /\ user.client = "mobile"
    /\ fetching > 0
    /\ fetching' = fetching - 1
    /\ loc' = srv
    /\ form' = [form EXCEPT
            !.feedback = OrEmpty(srv.authority_feedback),
            !.comment = OrEmpty(srv.authority_comment),
            !.date = IF srv.contractor_completion_date # 0
                     THEN srv.contractor_completion_date ELSE @]
    /\ UNCHANGED <<user, srv, puts, clock>>
    /\ OnlyDetail

\* A user has opened the detail of the snag, in whatever state it is.
InitFlow ==
    /\ InitConnected /\ InitBusVars /\ faulty = {} /\ NoPage
    /\ InitSyncVars /\ InitViewVars
    /\ user \in Users
    /\ srv \in SnagStates
    /\ loc = srv
    /\ form = FreshForm(srv, TRUE)
    /\ puts = <<>>
    /\ clock = 2
    /\ fetching = 0

NextFlow ==
    \/ HandleContractorStartWork
    \/ HandleContractorComplete
    \/ HandleAuthorityApprove
    \/ \E mode \in BOOLEAN : SetEditMode(mode)
    \/ \E s \in 1..Len(Statuses) : WebSetStatus(Statuses[s])
    \/ \E text \in Feedbacks \cup Notes : WebSetFeedback(text)
    \/ HandleSaveEdit
    \/ CloseModal
    \/ OpenModal
    \/ \E i \in 1..MaxPuts : HandleUpdateReturn(i)
    \/ MobileStartWork
    \/ MobileResolve
    \/ \E date \in 1..MaxDate : HandleCompletionDateConfirm(date)
    \/ SubmitContractorCompletion
    \/ \E show \in BOOLEAN : SetShowFeedbackModal(show)
    \/ \E text \in Feedbacks : SetFeedback(text)
    \/ \E text \in Comments : SetAuthorityComment(text)
    \/ SubmitFeedback
    \/ \E editing \in BOOLEAN : SetIsEditing(editing)
    \/ \E priority \in {"low", "high"} : SetPriority(priority)
    \/ SaveChanges
    \/ \E i \in 1..MaxPuts : MobileReturn(i)
    \/ FetchSnagReturn
    \/ \E i \in 1..MaxPuts, ok \in BOOLEAN : PutAnswer(i, ok)

SpecFlow == InitFlow /\ [][NextFlow]_vars

\* ------------------------------------------- a subscribed view over time
\* The backend has a connection of this client to push frames on: a socket
\* that is open and on which the auth frame was sent.
Subscribed == \E s \in SocketIds : sockets[s] = "open" /\ s \in authOn

\* The backend broadcasts a snag_update frame for a change it has applied: the
\* frame is on its way when this client is connected, and nobody keeps it for
\* later when it is not.
Pushed(event, i) ==
    IF Subscribed
    THEN Append(inflight, [type |-> "snag_update", event |-> event, id |-> i])
    ELSE inflight

\* Another client creates a snag, and the backend broadcasts the event.
BackendCreate ==
    /\ serverSeq < MaxSnags
    /\ Len(inflight) < MaxEvents
    /\ serverSeq' = serverSeq + 1
    /\ server' = [server EXCEPT ![serverSeq + 1] = 1]
    /\ inflight' = Pushed("created", serverSeq + 1)
    /\ UNCHANGED <<snags, loading, fetches, realtimeUpdate, nEvents, lastMsg, prevSnags>>
    /\ UNCHANGED <<filters, closure, catalog, viewVars, flowVars>>
    /\ UNCHANGED <<chanVars, busVars>>

\* Another client updates a snag, and the backend broadcasts the event.
BackendUpdate(i) ==
    /\ server[i] > 0
    /\ server[i] < MaxRev
    /\ Len(inflight) < MaxEvents
    /\ server' = [server EXCEPT ![i] = server[i] + 1]
    /\ inflight' = Pushed("updated", i)
    /\ UNCHANGED <<serverSeq, snags, loading, fetches, realtimeUpdate, nEvents,
                   lastMsg, prevSnags>>
    /\ UNCHANGED <<filters, closure, catalog, viewVars, flowVars>>
    /\ UNCHANGED <<chanVars, busVars>>

\* A manager deletes a snag, and the backend broadcasts the event.
BackendDelete(i) ==
    /\ server[i] > 0
    /\ Len(inflight) < MaxEvents
    /\ server' = [server EXCEPT ![i] = 0]
    /\ inflight' = Pushed("deleted", i)
    /\ UNCHANGED <<serverSeq, snags, loading, fetches, realtimeUpdate, nEvents,
                   lastMsg, prevSnags>>
    /\ UNCHANGED <<filters, closure, catalog, viewVars, flowVars>>
    /\ UNCHANGED <<chanVars, busVars>>

\* onmessage of the provider with the next frame on the connection: the
\* listener of SnagsPage is invoked with it.
Deliver == inflight # <<>> /\ SnagsListener(Head(inflight))

\* The connection is lost while no frame is on its way.
Drop(s) == inflight = <<>> /\ sockets[s] = "open" /\ OnClose(s)

\* The page with its list loaded and shown without filters, connected.
InitSync ==
    /\ InitConnected /\ InitBusVars /\ faulty = {}
    /\ serverSeq = MaxSnags - 1
    /\ server = [i \in SnagIds |-> IF i <= serverSeq THEN 1 ELSE 0]
    /\ snags = ServerListFor(Query(NoFilters))
    /\ loading = FALSE
    /\ fetches = <<>>
    /\ realtimeUpdate = 0
    /\ nEvents = 0
    /\ lastMsg = NoMsg
    /\ prevSnags = <<>>
    /\ InitMore

\* Changes made by other clients, the frames and list requests they cause,
\* and the loss and re-establishment of the connection.
NextSync ==
    \/ BackendCreate
    \/ \E i \in SnagIds : BackendUpdate(i)
    \/ \E i \in SnagIds : BackendDelete(i)
    \/ Deliver
    \/ \E f \in 1..MaxFetches : ServerAnswer(f, TRUE)
    \/ \E f \in 1..MaxFetches : LoadSnagsReturn(f)
    \/ \E s \in SocketIds : Drop(s)
    \/ \E t \in SocketIds : TimerFire(t)
    \/ \E s \in SocketIds : OnOpen(s)

SpecSync == InitSync /\ [][NextSync]_vars

\* ------------------------------------------ rejected and failed requests
\* A user has opened the detail of a snag from a list that was loaded before
\* the latest snag was created.
InitReject ==
    /\ InitConnected /\ InitBusVars /\ faulty = {}
    /\ serverSeq = MaxSnags
    /\ server = [i \in SnagIds |-> 1]
    /\ snags = [i \in 1..(MaxSnags - 1) |-> [id |-> i, rev |-> 1]]
    /\ loading = FALSE
    /\ fetches = <<>>
    /\ realtimeUpdate = 0
    /\ nEvents = 0
    /\ lastMsg = NoMsg
    /\ prevSnags = <<>>
    /\ InitSyncVars /\ InitViewVars
    /\ user \in Users
    /\ srv \in {SnagCreated, Snag("in_progress", 1, 0, 0, FALSE, FALSE, Null, Null)}
    /\ loc = srv
    /\ form = FreshForm(srv, TRUE)
    /\ puts = <<>>
    /\ clock = 2
    /\ fetching = 0

\* The handlers of the detail view, and the list requests the web client
\* issues after a successful update.
NextReject ==
    \/ NextFlow
    \/ \E f \in 1..MaxFetches, ok \in BOOLEAN : ServerAnswer(f, ok)
    \/ \E f \in 1..MaxFetches : LoadSnagsReturn(f)

SpecReject == InitReject /\ [][NextReject]_vars

\* ------------------------------------------------ the list while it shrinks
\* The handlers of the list view, its list requests, and snags deleted by a
\* manager elsewhere with the events that tell the page so.
NextPaging ==
    \/ \E key \in {"status", "priority", "project"} :
          \E value \in FilterValues(key) : SetFilter(key, value)
    \/ \E page \in 0..MaxPage : HandlePageChange(page)
    \/ \E n \in PageSizes : HandleItemsPerPageChange(n)
    \/ \E f \in 1..MaxFetches : ServerAnswer(f, TRUE)
    \/ \E f \in 1..MaxFetches : LoadSnagsReturn(f)
    \/ \E i \in SnagIds : BackendDelete(i)
    \/ Deliver

SpecPaging == InitFilter /\ [][NextPaging]_vars

\* ================================================================ claims

\* C1: after disconnect() returns, and until the host calls connect() again,
\* no new connection is opened and no reconnect timer is armed, whatever state
\* the channel was in (this includes the close event that disconnect() itself
\* causes).
C1_NoReconnectAfterDisconnect ==
    [][(stopped /\ stopped') =>
         /\ wsRef' = wsRef
         /\ \A t \in SocketIds : timer'[t] = "pending" => timer[t] = "pending"]_vars

\* C2: while disconnect() has never been called, a closure is followed by one
\* reconnect attempt, never by two: no closure has two sockets opened on its
\* account, also when the host calls connect() while its timer is pending.
C2_ExactlyOneReconnect ==
    disconnects = 0 => \A t \in SocketIds : attempts[t] <= 1

\* C3: a disconnect() call made while a reconnect timer is pending cancels it:
\* no timer is pending when disconnect() returns.
C3_DisconnectCancelsTimer ==
    [][disconnects' = disconnects + 1 =>
         \A t \in SocketIds : timer'[t] # "pending"]_vars

\* C4: connect() is idempotent: at most one socket that is connecting or open
\* exists at any time.
C4_AtMostOneLiveSocket ==
    Cardinality({s \in SocketIds : Live(s)}) <= 1

\* C5: when a registered listener throws while an event is dispatched, every
\* other listener registered at that moment still receives the event, and the
\* registry is left as it was.
C5_ThrowingListenerIsolated ==
    [][(/\ received' = received + 1
        /\ lastFrame' \in {"{type:snag_update}", "{type:notification}"}
        /\ Range(listeners) \cap faulty # {}) =>
         /\ listeners' = listeners
         /\ \A l \in Range(listeners) \ faulty :
               delivered'[l] = Append(delivered[l], received')]_vars

\* C6: every frame of type snag_update or notification is delivered exactly
\* once to every listener registered when it arrives and to no other, each
\* listener seeing the events in arrival order.
C6_DeliveredOnceInOrder ==
    [][(/\ received' = received + 1
        /\ lastFrame' \in {"{type:snag_update}", "{type:notification}"}) =>
         \A l \in ListenerIds :
            delivered'[l] = IF l \in Range(listeners)
                            THEN Append(delivered[l], received')
                            ELSE delivered[l]]_vars

\* The frames C7 speaks of: not JSON, without a type, or of another type.
C7_Malformed == {"not json", "null", "{}", "{type:pong}"}

\* C7: a frame that is not valid JSON, has no type, or has a type other than
\* snag_update and notification is dropped: no listener is invoked, the
\* registry, lastUpdate and the connection are unchanged; and a snag_update or
\* notification frame, also one that arrives after a dropped frame, is still
\* decoded and dispatched (the first registered listener is invoked with it).
C7_MalformedDropped ==
    [][received' = received + 1 =>
         IF lastFrame' \in C7_Malformed
         THEN UNCHANGED <<listeners, caps, delivered, lastUpdate, chanVars>>
         ELSE /\ lastUpdate' = received'
              /\ listeners # <<>> =>
                    delivered'[listeners[1]] =
                        Append(delivered[listeners[1]], received')
              /\ UNCHANGED <<listeners, chanVars>>]_vars

\* C7 witness: a malformed frame has arrived with both listeners registered and
\* nothing was delivered.
C7_Witness ==
    /\ received >= 1
    /\ lastFrame \in C7_Malformed
    /\ Len(listeners) = 2
    /\ lastUpdate = 0
    /\ \A l \in ListenerIds : delivered[l] = <<>>

\* C8: whenever a connection becomes established while a token is stored, an
\* auth frame has been sent on that same connection by the end of its open
\* event, hence before any message received on it is dispatched.
C8_AuthOnEveryConnection ==
    [][\A s \in SocketIds :
         (sockets[s] = "connecting" /\ sockets'[s] = "open" /\ token) =>
             s \in authOn']_vars

\* C9: subscriptions are independent: a listener with at least one subscription
\* not yet unsubscribed is registered, and one whose subscriptions have all
\* been unsubscribed is not.
C9_SubscriptionsIndependent ==
    \A l \in ListenerIds : (caps[l] > 0) <=> (l \in Range(listeners))

\* The list without the entries of id x, in order.
RECURSIVE C10_Without(_, _)
C10_Without(list, x) ==
    IF list = <<>> THEN <<>>
    ELSE (IF Head(list).id = x THEN <<>> ELSE <<Head(list)>>)
         \o C10_Without(Tail(list), x)

\* C10: applying a deleted event for id X removes X from the snapshot and
\* leaves every other entry and the order unchanged; applied when X is absent
\* (so also a second time) it leaves the snapshot exactly as it was.  No
\* request is issued for it.
C10_DeletedIdempotent ==
    [][(/\ nEvents' = nEvents + 1
        /\ lastMsg'.type = "snag_update"
        /\ lastMsg'.event = "deleted") =>
         /\ snags' = C10_Without(snags, lastMsg'.id)
         /\ lastMsg'.id \notin Ids(snags')
         /\ lastMsg'.id \notin Ids(snags) => snags' = snags
         /\ fetches' = fetches]_vars

\* C10 witness: the same deleted event was applied twice to a snapshot that
\* held X among other entries; the second application changed nothing.
C10_Witness ==
    /\ nEvents = 2
    /\ Len(fetches) = 1
    /\ lastMsg.type = "snag_update" /\ lastMsg.event = "deleted"
    /\ lastMsg.id \in Ids(ServerList)
    /\ lastMsg.id \notin Ids(snags)
    /\ prevSnags = snags
    /\ Len(snags) = Len(ServerList) - 1
    /\ Len(snags) >= 2

\* C11: when the same snag_update message has been delivered twice with the
\* server unchanged and every request it caused has completed, the snapshot is
\* what a single delivery leaves: for deleted, the snapshot left by the first
\* delivery; for created and updated, the response to the request of the first
\* delivery (or, when requests failed, the snapshot they left in place).
C11_TwiceEqualsOnce ==
    (/\ nEvents = 2
     /\ lastMsg.type = "snag_update"
     /\ \A f \in 1..Len(fetches) : fetches[f].st = "done") =>
        IF lastMsg.event = "deleted"
        THEN snags = prevSnags
        ELSE snags = prevSnags \/ snags = ServerListFor(fetches[1].q)

\* C12: an updated event for id X leaves the set of ids in the snapshot as it
\* was, since only snag X is fetched and replaced in place: while the one
\* message delivered so far is an updated event for X, nothing that happens
\* (the listener, the request it issues, the response) adds or removes an id
\* other than X.
C12_UpdatedKeepsIds ==
    [][(/\ nEvents = 1 /\ nEvents' = 1
        /\ lastMsg.type = "snag_update"
        /\ lastMsg.event = "updated") =>
         Ids(snags') \ {lastMsg.id} = Ids(snags) \ {lastMsg.id}]_vars

\* The lower-case form of a character, for the reference projection of C18.
C18_Lower(c) == IF c = "A" THEN "a" ELSE IF c = "B" THEN "b" ELSE c

\* Text t contains text s, letter case ignored.
C18_Contains(t, s) ==
    \E off \in 0..Len(t) :
        /\ off + Len(s) <= Len(t)
        /\ \A j \in 1..Len(s) : C18_Lower(t[off + j]) = C18_Lower(s[j])

\* The positions of the snapshot whose description, location, project_name or
\* query_no contains the search text.
C18_Hits ==
    {i \in 1..Len(snags) :
        LET row == catalog[snags[i].id]
        IN  \E field \in {row.description, row.location, row.project_name,
                          StringOf(row.query_no)} :
                field # Null /\ C18_Contains(field, filters.search)}

\* The k-th of these positions.
C18_Nth(k) == CHOOSE i \in C18_Hits : Cardinality({j \in C18_Hits : j <= i}) = k

\* The slice [(currentPage-1)*itemsPerPage, currentPage*itemsPerPage) of the
\* matching entries, in snapshot order.
C18_Rows ==
    LET first == (currentPage - 1) * itemsPerPage
        total == Cardinality(C18_Hits)
        last == IF currentPage * itemsPerPage < total
                THEN currentPage * itemsPerPage ELSE total
    IN  [k \in 1..(last - first) |-> snags[C18_Nth(first + k)]]

\* All the rows of the groups the mobile list shows.
C18_MobileIds ==
    LET out == filterAndGroupSnags(snags, filters.search, "all")
    IN  UNION {Ids(out.groups[g].snags) : g \in 1..Len(out.groups)}

C19_FilterChangeResetsPage ==
    [][(filters' # filters \/ itemsPerPage' # itemsPerPage) => currentPage' = 1]_vars

\* C19 witness: a select was changed while page 3 was shown, and page 1 is
\* shown now.
C19_Witness ==
    /\ lastView.op = "filter"
    /\ lastView.page = 3
    /\ currentPage = 1

\* The permission table: the roles listed as actors of each workflow action.
C13_Authorized(role, mine, kind) ==
    CASE kind = "start_work" -> (role = "contractor" /\ mine) \/ role = "manager"
      [] kind = "mark_complete" -> role = "contractor" /\ mine
      [] kind = "resolve" -> role = "manager"
      [] kind = "approve" -> role = "authority"
      [] kind = "edit" -> role \in {"manager", "inspector"}

\* C13: a workflow action whose (role, action) pair is not in the permission
\* table is offered by neither client, and no request is ever issued for it,
\* whether one goes by the button pressed or by the fields of the body; a
\* contractor never issues the authority-approve update.
C13_OnlyAuthorized ==
    /\ \A kind \in Kinds :
          (WebOffers(kind) \/ MobileOffers(kind))
              => C13_Authorized(user.role, user.mine, kind)
    /\ \A i \in 1..Len(puts) :
          LET fields == DOMAIN puts[i].body
              may(kind) == C13_Authorized(user.role, user.mine, kind)
          IN  /\ may(puts[i].kind)
              /\ "authority_approved" \in fields => may("approve")
              /\ "work_started_date" \in fields => may("start_work")
              /\ "contractor_completed" \in fields => may("mark_complete")
              /\ "status" \in fields => may(puts[i].kind)
    /\ user.role = "contractor" =>
          \A i \in 1..Len(puts) : puts[i].kind # "approve"

\* C13 witness: the assigned contractor has started and completed the work, so
\* the snag is one an authority could approve; the contractor is offered no
\* approval and both requests were their own actions.
C13_Witness ==
    /\ user.role = "contractor" /\ user.mine
    /\ Len(puts) = 2
    /\ puts[1].kind = "start_work" /\ puts[2].kind = "mark_complete"
    /\ puts[2].st = "done"
    /\ srv.status = "in_progress" /\ srv.contractor_completed
    /\ loc = srv
    /\ ~MobileOffers("approve") /\ ~WebOffers("approve")

\* The three timestamps of the workflow.
C14_Timestamps ==
    {"work_started_date", "work_completed_date", "contractor_completion_date"}

\* C14: no two requests issued for the snag carry different values for the
\* same timestamp (a timestamp is sent at most once, or the same value again).
C14_TimestampSentOnce ==
    \A i, j \in 1..Len(puts) : \A f \in C14_Timestamps :
        (f \in DOMAIN puts[i].body /\ f \in DOMAIN puts[j].body)
            => puts[i].body[f] = puts[j].body[f]

\* C15: every approval request that is issued carries a feedback text that is
\* not empty after trimming, and sets status to verified and authority_approved
\* to true together with authority_feedback and authority_comment.
C15_ApprovalChecked ==
    \A i \in 1..Len(puts) :
        puts[i].kind = "approve" =>
            /\ DOMAIN puts[i].body = {"status", "authority_approved",
                                      "authority_feedback", "authority_comment"}
            /\ puts[i].body.status = "verified"
            /\ puts[i].body.authority_approved
            /\ \E k \in 1..Len(puts[i].body.authority_feedback) :
                  puts[i].body.authority_feedback[k] # " "

\* C16: while an authority looks at the snag and no request of theirs is
\* under way, the approve action is available exactly when the snag shown is
\* in_progress or resolved and not yet approved.
C16_ApproveAvailability ==
    (user.role = "authority" /\ form.open /\ ~form.loading /\ ~form.modal) =>
        ((WebOffers("approve") \/ MobileOffers("approve"))
            <=> (/\ loc.status \in {"in_progress", "resolved"}
                 /\ ~loc.authority_approved))

\* C17: a request that sets status to a value earlier in the lifecycle than
\* the status its sender was shown is a manager's edit.
C17_NoRegress ==
    \A i \in 1..Len(puts) :
        ("status" \in DOMAIN puts[i].body
            /\ Rank(puts[i].body.status) < Rank(puts[i].seen))
        => (user.role = "manager" /\ puts[i].kind = "edit")

\* C20: once the connection is up again, no frame is on its way and no list
\* request was needed or is outstanding, the snapshot of the subscribed view
\* equals the server's list for the view's filters.
C20_SettledViewIsCurrent ==
    (/\ isConnected /\ Subscribed
     /\ \A t \in SocketIds : timer[t] # "pending"
     /\ inflight = <<>>
     /\ fetches = <<>>)
    => snags = ServerListFor(Query(filters))

\* C21: after the listener has applied a deleted event for id X (ids are never
\* reused, so X is gone from the server for good), X is absent from the
\* snapshot, whatever list responses return afterwards.
C21_DeletedStaysAbsent ==
    (lastMsg.type = "snag_update" /\ lastMsg.event = "deleted")
        => lastMsg.id \notin Ids(snags)

\* C22: a list response that arrives is stored as the snapshot whatever has
\* returned before it, so a request that completes last wins even when it was
\* issued first; and the delivery of an event leaves the requests that are
\* under way as they are (none is cancelled, none is waited for).
C22_LastResponseWins ==
    [][/\ \A f \in 1..Len(fetches) :
             (fetches[f].st = "ok" /\ fetches'[f].st = "done")
                 => snags' = fetches[f].data
       /\ nEvents' # nEvents
             => SubSeq(fetches', 1, Len(fetches)) = fetches]_vars

\* C22 witness: two events were delivered over a connection that was never
\* lost, each issued a list request, both requests have returned and no frame
\* is on its way, yet the snapshot is not the server's list: the request issued
\* first returned last, with the list as it was before the second change.
C22_Witness ==
    /\ sockets[1] = "open"
    /\ nEvents = 2 /\ inflight = <<>>
    /\ Len(fetches) = 2
    /\ fetches[1].st = "done" /\ fetches[2].st = "done"
    /\ snags # ServerListFor(Query(filters))
    /\ Len(snags) < Len(ServerListFor(Query(filters)))

\* C23: an edit request issued from a form whose status field the editor did
\* not change carries no value for status.
C23_UntouchedStatusNotSent ==
    [][(/\ Len(puts') = Len(puts) + 1
        /\ puts'[Len(puts')].kind = "edit"
        /\ ~form.touched)
       => "status" \notin DOMAIN puts'[Len(puts')].body]_vars

\* C24: a mark-complete request is issued only by the assigned contractor and
\* only while the snag shown is in_progress; its body has no status, sets
\* contractor_completed to true, and carries work_completed_date and
\* contractor_completion_date only when the snag shown has them unset.
C24_MarkCompleteGated ==
    [][(/\ Len(puts') = Len(puts) + 1
        /\ puts'[Len(puts')].kind = "mark_complete")
       => LET body == puts'[Len(puts')].body
          IN  /\ user.role = "contractor" /\ user.mine
              /\ loc.status = "in_progress"
              /\ "status" \notin DOMAIN body
              /\ "contractor_completed" \in DOMAIN body
              /\ body.contractor_completed
              /\ "work_completed_date" \in DOMAIN body
                    => loc.work_completed_date = 0
              /\ "contractor_completion_date" \in DOMAIN body
                    => loc.contractor_completion_date = 0]_vars

\* C25: a start-work request is issued only while the snag shown is open and
\* only by the assigned contractor or a manager; its body sets status to
\* in_progress and carries work_started_date only when the snag shown has it
\* unset.
C25_StartWorkGated ==
    [][(/\ Len(puts') = Len(puts) + 1
        /\ puts'[Len(puts')].kind = "start_work")
       => LET body == puts'[Len(puts')].body
          IN  /\ (user.role = "contractor" /\ user.mine) \/ user.role = "manager"
              /\ loc.status = "open"
              /\ "status" \in DOMAIN body
              /\ body.status = "in_progress"
              /\ "work_started_date" \in DOMAIN body
                    => loc.work_started_date = 0]_vars

\* C26: no approval request is issued by an authority that is not among the
\* authorities assigned to the snag when the snag has assigned authorities.
C26_OnlyAssignedAuthority ==
    \A i \in 1..Len(puts) :
        puts[i].kind = "approve" => user.auth # "others"

\* C27: no request issued by an inspector or a contractor carries a value for
\* authority_feedback or authority_comment.
C27_FeedbackWriters ==
    user.role \in {"inspector", "contractor"} =>
        \A i \in 1..Len(puts) :
            /\ "authority_feedback" \notin DOMAIN puts[i].body
            /\ "authority_comment" \notin DOMAIN puts[i].body

\* C28: when the continuation of a rejected update runs, the snag shown, the
\* list snapshot and the views that are open stay as they were, no list
\* request and no fetchSnag() is issued, and an alert reports the failure; and
\* when a failed list request returns, the snapshot stays as it was.
C28_RejectedLeavesState ==
    [][/\ \A i \in 1..Len(puts) :
             (puts[i].st = "failed" /\ puts'[i].st = "done")
                 => /\ loc' = loc /\ srv' = srv
                    /\ snags' = snags
                    /\ fetches' = fetches
                    /\ fetching' = fetching
                    /\ form'.open = form.open
                    /\ form'.modal = form.modal
                    /\ form'.editMode = form.editMode
                    /\ form'.alert \in {"Update failed", "Error"}
       /\ \A f \in 1..Len(fetches) :
             (fetches[f].st = "failed" /\ fetches'[f].st = "done")
                 => snags' = snags]_vars

\* C28 witness: on the web, a first update was rejected and reported, a second
\* one succeeded and requested the list, and that list request failed: the
\* snapshot is still the one loaded before the latest snag was created.
C28_Witness ==
    /\ user.client = "web"
    /\ Len(puts) = 2
    /\ puts[1].st = "done" /\ puts[2].st = "done"
    /\ form.alert = "Update failed"
    /\ Len(fetches) = 1 /\ fetches[1].st = "done"
    /\ snags # ServerListFor(Query(filters))
    /\ Len(snags) = MaxSnags - 1

\* C29: after any sequence of filter changes, page changes, page-size changes,
\* deleted events and list responses, the current page of the snag list lies
\* between 1 and max(1, totalPages), totalPages being computed from the rows
\* that pass the search box and the page size.
C29_PageInRange ==
    /\ currentPage >= 1
    /\ currentPage <= (IF totalPages > 1 THEN totalPages ELSE 1)

\* C30: whenever no socket has an open or close event still to come, the
\* isConnected flag is TRUE exactly when the socket held in wsRef is open; and
\* no step turns the flag from TRUE to FALSE while the socket held in wsRef is
\* open, so the close event of an older, replaced socket does not.
C30_FlagFollowsCurrentSocket ==
    /\ [](  (\A s \in SocketIds : sockets[s] \notin {"connecting", "closing"})
          => (isConnected <=> (wsRef # 0 /\ sockets[wsRef] = "open")))
    /\ [][~(/\ isConnected
            /\ ~isConnected'
            /\ wsRef' # 0
            /\ sockets'[wsRef'] = "open")]_vars

=============================================================================
